---- MODULE Spec2Model ----
(***************************************************************************)
(* The routing decision engine of redbird (src/index.js): the routing      *)
(* table, the resolver chain, route normalisation with the module-level    *)
(* LRU cache, longest-prefix matching and round-robin target selection.    *)
(*                                                                         *)
(* JavaScript strings are modelled as sequences of one-character strings,  *)
(* so that slice, indexing, toLowerCase and concatenation are computed.    *)
(* The scheme prefix of a URI ("http://") is one element of the sequence.  *)
(***************************************************************************)
EXTENDS Integers, Sequences, FiniteSets, TLC

\* ------------------------------------------------------------------ strings

Http == "http://"
Https == "https://"

\* The value JavaScript calls undefined where a string is expected: a
\* sequence of one element that no character sequence equals.
Undefined == <<"undefined">>

\* NaN, among the numbers a rotation index holds.
NaN == -1

Min(a, b) == IF a <= b THEN a ELSE b

\* String.prototype.slice(0, n)
slice0(s, n) == SubSeq(s, 1, Min(n, Len(s)))

\* String.prototype.substr(n) || '/'
substrFrom(s, n) == IF n >= Len(s) THEN <<>> ELSE SubSeq(s, n + 1, Len(s))

\* String.prototype.toLowerCase over the model's alphabet
toLowerCase(s) == [i \in DOMAIN s |-> IF s[i] = "A" THEN "a" ELSE IF s[i] = "B" THEN "b" ELSE s[i]]

\* A mutant of startsWith: the prefix test without the segment boundary.
startsWithNoBoundary(input, str) == slice0(input, Len(str)) = str

startsWith(input, str) ==
    /\ slice0(input, Len(str)) = str
    /\ \/ Len(input) = Len(str)
       \/ (Len(input) > Len(str) /\ input[Len(str) + 1] = "/")

\* setHttp: prefix the scheme when the link has none.
setHttp(link) ==
    IF link /= <<>> /\ Head(link) \in {Http, Https} THEN link ELSE <<Http>> \o link

\* Index of the first "/" of s, or Len(s) + 1.
FirstSlash(s) ==
    IF \E i \in DOMAIN s : s[i] = "/"
    THEN CHOOSE i \in DOMAIN s : s[i] = "/" /\ \A j \in 1..(i - 1) : s[j] /= "/"
    ELSE Len(s) + 1

\* validUrl.isHttpUri(url) || validUrl.isHttpsUri(url): a scheme, a
\* non-empty authority and no character that is illegal in a URI.
isHttpOrHttpsUri(u) ==
    /\ u /= <<>>
    /\ Head(u) \in {Http, Https}
    /\ FirstSlash(Tail(u)) > 1
    /\ \A i \in 2..Len(u) : u[i] \notin {" ", Http, Https}

\* url.parse of a valid http(s) URI: the hostname is lowercased and an empty
\* path is "/".
parseUrl(u) ==
    LET rest == Tail(u)
        k == FirstSlash(rest)
        hostname == toLowerCase(SubSeq(rest, 1, k - 1))
        pathname == IF k > Len(rest) THEN <<"/">> ELSE SubSeq(rest, k, Len(rest))
    IN [hostname |-> hostname, pathname |-> pathname,
        href |-> <<Head(u)>> \o hostname \o pathname]

\* prepareUrl throws when the string is no valid http(s) URI ...
prepareUrlThrows(url) == ~isHttpOrHttpsUri(setHttp(url))

\* ... and returns the parsed URL otherwise.
prepareUrl(url) == parseUrl(setHttp(url))

\* ReverseProxy.buildTarget: opts is TRUE when opts.useTargetHostHeader === true.
buildTarget(target, opts) ==
    LET t == prepareUrl(target)
    IN [href |-> t.href, host |-> t.hostname, pathname |-> t.pathname,
        useTargetHostHeader |-> opts]

\* ------------------------------------------------------------------ lodash

\* Array.prototype.reverse
reverse(seq) == [i \in 1..Len(seq) |-> seq[Len(seq) + 1 - i]]

\* _.sortBy is a stable ascending sort: x goes after every element whose key
\* is not greater.
InsertStable(t, x) ==
    LET c == Cardinality({i \in 1..Len(t) : t[i].k <= x.k})
    IN SubSeq(t, 1, c) \o <<x>> \o SubSeq(t, c + 1, Len(t))

RECURSIVE StableSort(_)
StableSort(p) ==
    IF p = <<>> THEN <<>>
    ELSE InsertStable(StableSort(SubSeq(p, 1, Len(p) - 1)), p[Len(p)])

\* _.sortBy(seq, f), with keys[i] = f(seq[i])
sortBy(seq, keys) ==
    LET s == StableSort([i \in 1..Len(seq) |-> [k |-> keys[i], v |-> seq[i]]])
    IN [i \in 1..Len(seq) |-> s[i].v]

\* _.uniq: the first occurrence of every element, in order.
RECURSIVE uniq(_)
uniq(seq) ==
    IF seq = <<>> THEN <<>>
    ELSE LET front == uniq(SubSeq(seq, 1, Len(seq) - 1))
             x == seq[Len(seq)]
         IN IF \E i \in 1..Len(front) : front[i] = x THEN front ELSE Append(front, x)

\* Array.prototype.filter / _.remove keep the elements in their order.
RECURSIVE SelectSeqBy(_, _)
SelectSeqBy(seq, keep) ==
    IF seq = <<>> THEN <<>>
    ELSE LET rest == SelectSeqBy(Tail(seq), Tail(keep))
         IN IF Head(keep) THEN <<Head(seq)>> \o rest ELSE rest

\* ------------------------------------------------------------ routing table

\* The host names url.parse can produce from the model's inputs.
Hostnames == {<<"a">>, <<"b">>}

EmptyRouting == [h \in Hostnames |-> <<>>]

\* A mutant of the route order: the host's list is left in insertion order.
unsortedRoutes(host) == host

\* register, line 215: _.sortBy(host, route => -route.path.length)
sortRoutes(host) == sortBy(host, [i \in 1..Len(host) |-> 0 - Len(host[i].path)])

\* register, lines 204-218: the list of the host with a route for pathname,
\* a new one (and the list sorted again) when none has that path.
withRoute(host, pathname) ==
    IF \E i \in 1..Len(host) : host[i].path = pathname THEN host
    ELSE sortRoutes(Append(host, [path |-> pathname, rr |-> 0, urls |-> <<>>,
                                  isResolved |-> FALSE]))

\* unregister, lines 236-240 (and _.find of register): the index of the
\* first route of that path, or routes.length.
routeIndex(routes, pathname) ==
    IF \E i \in 1..Len(routes) : routes[i].path = pathname
    THEN CHOOSE i \in 1..Len(routes) :
             routes[i].path = pathname /\ \A j \in 1..(i - 1) : routes[j].path /= pathname
    ELSE Len(routes) + 1

\* A mutant of register: the route is made before the target is parsed, so
\* that an invalid target leaves a route without targets behind.
registerOutcomeEager(rt, src, target, opts) ==
    IF src = <<>> \/ target = <<>> THEN [err |-> "InvalidArgument", rt |-> rt]
    ELSE IF prepareUrlThrows(src) THEN [err |-> "InvalidURI", rt |-> rt]
    ELSE LET s == prepareUrl(src)
             host == withRoute(rt[s.hostname], s.pathname)
         IN IF prepareUrlThrows(target)
            THEN [err |-> "InvalidURI", rt |-> [rt EXCEPT ![s.hostname] = host]]
            ELSE [err |-> "none",
                  rt |-> [rt EXCEPT ![s.hostname] =
                             [host EXCEPT ![routeIndex(host, s.pathname)].urls =
                                 Append(@, buildTarget(target, opts))]]]

\* register(src, target, opts) on the table rt of one engine: the error it
\* throws ("none" when it returns) and the table it leaves.  Lines 194-202
\* throw before line 204 first writes to the table.
registerOutcome(rt, src, target, opts) ==
    IF src = <<>> \/ target = <<>> THEN [err |-> "InvalidArgument", rt |-> rt]
    ELSE IF prepareUrlThrows(src) THEN [err |-> "InvalidURI", rt |-> rt]
    ELSE IF prepareUrlThrows(target) THEN [err |-> "InvalidURI", rt |-> rt]
    ELSE LET s == prepareUrl(src)
             host == withRoute(rt[s.hostname], s.pathname)
         IN [err |-> "none",
             rt |-> [rt EXCEPT ![s.hostname] =
                        [host EXCEPT ![routeIndex(host, s.pathname)].urls =
                            Append(@, buildTarget(target, opts))]]]

\* A mutant of the removal: only the first equal target is removed.
removeFirstUrl(urls, href) ==
    IF \E i \in 1..Len(urls) : urls[i].href = href
    THEN LET k == CHOOSE i \in 1..Len(urls) :
                      urls[i].href = href /\ \A j \in 1..(i - 1) : urls[j].href /= href
         IN SubSeq(urls, 1, k - 1) \o SubSeq(urls, k + 1, Len(urls))
    ELSE urls

\* unregister, lines 247-249: _.remove(route.urls, url => url.href === href)
removeUrls(urls, href) ==
    SelectSeqBy(urls, [i \in 1..Len(urls) |-> urls[i].href /= href])

\* A mutant of unregister: a route left without targets stays in the list
\* of its host (the splice of line 255 is missing).
unregisterOutcomeNoSplice(rt, src, target) ==
    IF src = <<>> THEN [err |-> "none", rt |-> rt]
    ELSE IF prepareUrlThrows(src) THEN [err |-> "InvalidURI", rt |-> rt]
    ELSE LET s == prepareUrl(src)
             routes == rt[s.hostname]
             i == routeIndex(routes, s.pathname)
         IN IF i > Len(routes) THEN [err |-> "none", rt |-> rt]
            ELSE IF target /= <<>> /\ prepareUrlThrows(target)
            THEN [err |-> "InvalidURI", rt |-> rt]
            ELSE [err |-> "none",
                  rt |-> [rt EXCEPT ![s.hostname][i].urls =
                             IF target /= <<>>
                             THEN removeUrls(routes[i].urls, prepareUrl(target).href)
                             ELSE <<>>]]

\* unregister(src, target) on the table rt of one engine: the error it
\* throws and the table it leaves.  An empty src returns at once; an empty
\* target is falsy and clears the list; the target is parsed (line 246)
\* only when the route exists; a route left without targets is spliced out.
unregisterOutcome(rt, src, target) ==
    IF src = <<>> THEN [err |-> "none", rt |-> rt]
    ELSE IF prepareUrlThrows(src) THEN [err |-> "InvalidURI", rt |-> rt]
    ELSE LET s == prepareUrl(src)
             routes == rt[s.hostname]
             i == routeIndex(routes, s.pathname)
         IN IF i > Len(routes) THEN [err |-> "none", rt |-> rt]
            ELSE IF target /= <<>> /\ prepareUrlThrows(target)
            THEN [err |-> "InvalidURI", rt |-> rt]
            ELSE LET urls == IF target /= <<>>
                             THEN removeUrls(routes[i].urls, prepareUrl(target).href)
                             ELSE <<>>
                 IN [err |-> "none",
                     rt |-> IF urls = <<>>
                            THEN [rt EXCEPT ![s.hostname] =
                                     SubSeq(routes, 1, i - 1) \o SubSeq(routes, i + 1, Len(routes))]
                            ELSE [rt EXCEPT ![s.hostname][i].urls = urls]]

\* Whether the table has a PathRoute at (host, path).
hasRoute(rt, host, path) == routeIndex(rt[host], path) <= Len(rt[host])

\* ------------------------------------------------------------ resolver chain

\* this._defaultResolver and the custom resolver functions of the model.
\* NotAFunction is a value that fails _.isFunction.
DefaultResolver == "_defaultResolver"
CustomResolvers == {"rA", "rB"}
NotAFunction == "notAFunction"

\* The priority property of a resolver function once it is in the chain:
\* _defaultResolver.priority = 0 (line 290); rA has no own priority and gets
\* 0 (line 160); rB carries its own priority, above the built-in one.
priority(r) == IF r = "rB" THEN 10 ELSE 0

\* addResolver, line 166: _.sortBy(_.uniq(resolvers), ['priority']).reverse()
sortResolvers(chain) ==
    reverse(sortBy(uniq(chain), [i \in 1..Len(uniq(chain)) |-> priority(uniq(chain)[i])]))

\* addResolver, lines 154-164: forEach throws at the first element that is
\* no function; the elements before it have been pushed.
addResolverThrows(arr) == \E i \in 1..Len(arr) : arr[i] = NotAFunction

pushedBeforeThrow(arr) ==
    LET k == CHOOSE i \in 1..Len(arr) :
                 arr[i] = NotAFunction /\ \A j \in 1..(i - 1) : arr[j] /= NotAFunction
    IN SubSeq(arr, 1, k - 1)

\* The chain after addResolver(arr): re-sorted only when forEach completes.
addResolver(chain, arr) ==
    IF addResolverThrows(arr) THEN chain \o pushedBeforeThrow(arr)
    ELSE sortResolvers(chain \o arr)

\* removeResolver, lines 172-174
removeResolver(chain, r) ==
    SelectSeqBy(chain, [i \in 1..Len(chain) |-> chain[i] /= r])

\* ------------------------------------------------- values a resolver returns

undefined == [kind |-> "undefined"]

\* A PathRoute that is in the routing table of the resolving engine: the
\* object is named by its host and path while it is in the table.
TableRef(host, path) == [kind |-> "route", host |-> host, path |-> path]

\* A normalised route that is in the RouteCache, named by its cache key.
CachedRef(key) == [kind |-> "cached", key |-> key]

\* A route object that neither the table nor the cache holds (any more): a
\* removed PathRoute, an evicted cache entry, or an object a custom resolver
\* made.  It is carried by value: with at most two resolutions in flight no
\* two of them share such an object that still has targets (a removed
\* PathRoute has none, and an evicted entry has one holder besides the
\* resolution that evicts it).
ObjectRef(obj) == [kind |-> "object", obj |-> obj]

\* The descriptors of custom resolvers: a string, a structured object
\* {url, path, opts} (url a string or an array; hasUrl is FALSE when the
\* property is missing; path Undefined when missing), an object that
\* already has path and urls, and a value that is neither string nor object.
StringDescriptor(str) == [kind |-> "string", str |-> str]
StructuredDescriptor(hasUrl, url, path, opts) ==
    [kind |-> "structured", hasUrl |-> hasUrl, url |-> url, path |-> path, opts |-> opts]
NativeDescriptor(path, urls, rr) ==
    [kind |-> "native", path |-> path, urls |-> urls, rr |-> rr]
NumberDescriptor == [kind |-> "number"]

\* JavaScript truthiness of a resolver result (resolve, line 311).
truthy(v) ==
    /\ v.kind /= "undefined"
    /\ ~(v.kind = "string" /\ v.str = <<>>)

\* ------------------------------------------------------------- RouteCache

\* The LRU cache as the sequence of its entries [key, route], the most
\* recently used first.
cacheHas(cache, key) == \E i \in 1..Len(cache) : cache[i].key = key

cacheIndex(cache, key) == CHOOSE i \in 1..Len(cache) : cache[i].key = key

cacheRoute(cache, key) == cache[cacheIndex(cache, key)].route

\* routeCache.get(key) of a present key: the entry becomes the most recent.
cacheGet(cache, key) ==
    LET i == cacheIndex(cache, key)
    IN <<cache[i]>> \o SubSeq(cache, 1, i - 1) \o SubSeq(cache, i + 1, Len(cache))

\* The capacity of the cache.  The program's is 5000 (line 11); the model
\* scales it down so that eviction happens.
CacheMax == 2

\* routeCache.set(key, route) of an absent key: the least recently used entry
\* is dropped when the capacity is exceeded.
cacheSet(cache, key, route) ==
    LET c == <<[key |-> key, route |-> route]>> \o cache
    IN IF Len(c) > CacheMax THEN SubSeq(c, 1, CacheMax) ELSE c

\* ------------------------------------------------------------- buildRoute

null == [kind |-> "null"]

\* buildRoute throws when it has to build a target from an invalid URI
\* (lines 344 and 351-353); a cached descriptor is not built again.
buildRouteThrows(v, cache) ==
    /\ v.kind \in {"string", "structured"}
    /\ ~cacheHas(cache, v)
    /\ \/ v.kind = "string" /\ prepareUrlThrows(v.str)
       \/ /\ v.kind = "structured"
          /\ v.hasUrl
          /\ \E i \in 1..Len(v.url) : prepareUrlThrows(v.url[i])

\* The route object lines 342-356 make of a descriptor.
normalizedRoute(v) ==
    IF v.kind = "string"
    THEN [path |-> <<"/">>, rr |-> 0, urls |-> <<buildTarget(v.str, FALSE)>>,
          isResolved |-> TRUE]
    ELSE [path |-> IF v.path = Undefined \/ v.path = <<>> THEN <<"/">> ELSE v.path,
          rr |-> 0,
          urls |-> [i \in 1..Len(v.url) |-> buildTarget(v.url[i], v.opts)],
          isResolved |-> TRUE]

\* A mutant of buildRoute: a cached descriptor is built again and the new
\* route takes the place of the entry.
buildRouteAgain(v, cache) ==
    IF v.kind = "number" \/ (v.kind = "structured" /\ ~v.hasUrl)
    THEN [route |-> null, cache |-> cache]
    ELSE IF v.kind \in {"route", "object"}
    THEN [route |-> v, cache |-> cache]
    ELSE [route |-> CachedRef(v),
          cache |-> cacheSet(SelectSeq(cache, LAMBDA en : en.key /= v), v, normalizedRoute(v))]

\* ReverseProxy.buildRoute of a truthy value that does not make it throw:
\* the route (null, or a reference to the route object) and the cache after.
buildRoute(v, cache) ==
    IF v.kind = "number"
    THEN [route |-> null, cache |-> cache]
    ELSE IF v.kind \in {"route", "object"}
    THEN [route |-> v, cache |-> cache]
    ELSE IF cacheHas(cache, v)
    THEN [route |-> CachedRef(v), cache |-> cacheGet(cache, v)]
    ELSE IF v.kind = "structured" /\ ~v.hasUrl
    THEN [route |-> null, cache |-> cache]
    ELSE [route |-> CachedRef(v), cache |-> cacheSet(cache, v, normalizedRoute(v))]

\* The route object a reference names, in table rt and cache.
deref(ref, rt, cache) ==
    IF ref.kind = "route" THEN rt[ref.host][routeIndex(rt[ref.host], ref.path)]
    ELSE IF ref.kind = "cached" THEN cacheRoute(cache, ref.key)
    ELSE ref.obj

\* resolve, line 314
accepts(route, url) ==
    \/ ~route.isResolved
    \/ route.path = <<"/">>
    \/ startsWith(url, route.path)

\* The then-callback of resolve (lines 308-318) from result i on, with the
\* cache as the results before i left it: whether it threw, the index and
\* the route of the accepted result (0 and undefined when it returns
\* nothing) and the cache after.
RECURSIVE acceptFrom(_, _, _, _, _)
acceptFrom(i, results, url, rt, cache) ==
    IF i > Len(results)
    THEN [threw |-> FALSE, idx |-> 0, route |-> undefined, cache |-> cache]
    ELSE LET v == results[i].val
         IN IF ~truthy(v) THEN acceptFrom(i + 1, results, url, rt, cache)
            ELSE IF buildRouteThrows(v, cache)
            THEN [threw |-> TRUE, idx |-> 0, route |-> undefined, cache |-> cache]
            ELSE LET b == buildRoute(v, cache)
                 IN IF b.route = null
                    THEN acceptFrom(i + 1, results, url, rt, b.cache)
                    ELSE IF accepts(deref(b.route, rt, b.cache), url)
                    THEN [threw |-> FALSE, idx |-> i, route |-> b.route, cache |-> b.cache]
                    ELSE acceptFrom(i + 1, results, url, rt, b.cache)

\* -------------------------------------------------------- _defaultResolver

\* Line 283: the test of one route against the request url.
routeMatches(route, url) == route.path = <<"/">> \/ startsWith(url, route.path)

\* Lines 280-286: the index of the first route whose path is "/" or a
\* boundary prefix of url, or 0.
matchIndex(routes, url) ==
    LET hits == {i \in 1..Len(routes) : routeMatches(routes[i], url)}
    IN IF hits = {} THEN 0 ELSE CHOOSE i \in hits : \A j \in hits : i <= j

\* _defaultResolver(host, url) over table rt.
defaultResolver(rt, host, url) ==
    IF host = <<>> \/ host \notin DOMAIN rt THEN undefined
    ELSE LET u == IF url = <<>> THEN <<"/">> ELSE url
             i == matchIndex(rt[host], u)
         IN IF i = 0 THEN undefined ELSE TableRef(host, rt[host][i].path)

\* --------------------------------------------------------------- _getTarget

\* A mutant of the index update: the write of line 386 is lost.
nextRrLost(route) == route.rr

\* A mutant of the selection: the first target is returned whatever the
\* index.
selectedTargetStuck(route) ==
    IF Len(route.urls) > 0 THEN route.urls[1] ELSE undefined

\* Lines 384-387: j = route.rr; route.rr = (j + 1) % urls.length;
\* target = route.urls[j].  The remainder by 0 and every sum with NaN are
\* NaN, and an index that is NaN or past the end reads undefined.
nextRr(route) ==
    IF route.rr = NaN \/ Len(route.urls) = 0 THEN NaN
    ELSE (route.rr + 1) % Len(route.urls)

selectedTarget(route) ==
    IF route.rr /= NaN /\ route.rr + 1 <= Len(route.urls)
    THEN route.urls[route.rr + 1]
    ELSE undefined

\* path.posix.join(a, b) over the model's alphabet (no "." segments): the
\* two joined by "/" with runs of "/" collapsed.
RECURSIVE collapseSlashes(_)
collapseSlashes(s) ==
    IF Len(s) < 2 THEN s
    ELSE IF s[1] = "/" /\ s[2] = "/" THEN collapseSlashes(Tail(s))
    ELSE <<s[1]>> \o collapseSlashes(Tail(s))

posixJoin(a, b) == collapseSlashes(a \o <<"/">> \o b)

\* Lines 370-377: the request url with the prefix of the route removed.
strippedUrl(route, url) ==
    IF Len(route.path) > 1
    THEN (IF substrFrom(url, Len(route.path)) = <<>> THEN <<"/">>
          ELSE substrFrom(url, Len(route.path)))
    ELSE url

\* Lines 392-394: req.url once the target is known (its pathname is never
\* empty, url.parse gives "/" at least).
forwardedUrl(route, target, url) == posixJoin(target.pathname, strippedUrl(route, url))

\* -------------------------------------------------------------------- state

\* The engines (ReverseProxy instances) a process can hold and the
\* resolutions that can be in flight at once.
Engines == {1, 2}
Calls == {1, 2}

\* The most targets one PathRoute holds and the longest resolver chain.
MaxUrls == 2
MaxChain == 3

VARIABLES
    constructed,  \* the engines that have been constructed
    routing,      \* this.routing of every engine: hostname -> list of PathRoutes
    resolvers,    \* this.resolvers of every engine
    routeCache,   \* the module-level routeCache (line 11), shared by the engines
    calls,        \* the resolutions in flight: the promise chain of each
    bluebird,     \* whether the global Promise has .bind (bluebird) or is the built-in one
    last,         \* history: the last call of the engine's API and how it ended
    picks,        \* history: the selections made on every PathRoute of the table
    res           \* the response of the request of each resolution, once it is proxied

vars == <<constructed, routing, resolvers, routeCache, calls, bluebird, last, picks, res>>

\* The paths url.parse can produce from the model's inputs.
Paths == {<<"/">>, <<"/", "a">>, <<"/", "a", "/", "b">>}

\* picks[e][host][path] counts the selections made on the PathRoute at
\* (host, path) since register made it, up to MaxPicks; it is Untracked
\* when there is no such route, when a register or unregister call has
\* reached the route after its first selection, or past MaxPicks.
MaxPicks == 4
Untracked == MaxPicks + 1

picksAfterCall(p, before, after, src) ==
    IF src = <<>> \/ prepareUrlThrows(src) THEN p
    ELSE LET s == prepareUrl(src)
         IN [p EXCEPT ![s.hostname][s.pathname] =
                IF ~hasRoute(after, s.hostname, s.pathname) THEN Untracked
                ELSE IF ~hasRoute(before, s.hostname, s.pathname) \/ @ = 0 THEN 0
                ELSE Untracked]

\* A resolution that is not running.
IdleCall ==
    [phase |-> "idle", inst |-> 0, host |-> <<>>, url |-> <<>>, via |-> FALSE,
     results |-> <<>>, caught |-> FALSE, idx |-> 0, route |-> undefined,
     target |-> undefined, reqUrl |-> <<>>, reqHost |-> <<>>, err |-> "none"]

LastCall(op, err) == [op |-> op, err |-> err]

\* The response of a request that has not been handed to the proxy, and the
\* one proxy.web receives (line 128): nothing written. writeHeads lists the
\* statuses handleProxyError has passed to res.writeHead; handled is
\* history, the errors the handler has been given and whether the headers
\* had been sent by then.
NoResponse ==
    [open |-> FALSE, headersSent |-> FALSE, writeHeads |-> <<>>, threw |-> FALSE,
     ended |-> FALSE, body |-> "", handled |-> <<>>]

FreshResponse == [NoResponse EXCEPT !.open = TRUE]

\* The state after new ReverseProxy() (lines 13-43): the chain holds the
\* built-in resolver and the table is empty.
InitEngines(built) ==
    /\ constructed = built
    /\ routing = [e \in Engines |-> EmptyRouting]
    /\ resolvers = [e \in Engines |-> IF e \in built THEN <<DefaultResolver>> ELSE <<>>]
    /\ routeCache = <<>>
    /\ calls = [c \in Calls |-> IdleCall]
    /\ res = [c \in Calls |-> NoResponse]
    /\ bluebird \in BOOLEAN
    /\ last = LastCall("new", "none")
    /\ picks = [e \in Engines |-> [h \in Hostnames |-> [p \in Paths |-> Untracked]]]

Init == InitEngines({1})

\* ------------------------------------------------------ register, unregister

Register(e, src, target, opts) ==
    LET out == registerOutcome(routing[e], src, target, opts)
    IN /\ e \in constructed
       /\ \A h \in Hostnames : \A i \in 1..Len(out.rt[h]) : Len(out.rt[h][i].urls) <= MaxUrls
       /\ routing' = [routing EXCEPT ![e] = out.rt]
       /\ last' = LastCall("register", out.err)
       /\ picks' = IF out.err = "none"
                   THEN [picks EXCEPT ![e] = picksAfterCall(@, routing[e], out.rt, src)]
                   ELSE picks
       /\ UNCHANGED <<res, constructed, resolvers, routeCache, calls, bluebird>>

\* A reference to the PathRoute (host, path) of engine e, held by a call of
\* that engine, once unregister has spliced the route out of table rt: the
\* object stays with the call, with the empty target list it was left with.
detach(c, e, before, after) ==
    LET fix(v) ==
            IF c.inst = e /\ v.kind = "route" /\ ~hasRoute(after, v.host, v.path)
            THEN ObjectRef([before[v.host][routeIndex(before[v.host], v.path)]
                                EXCEPT !.urls = <<>>])
            ELSE v
    IN [c EXCEPT !.results = [i \in 1..Len(c.results) |->
                                  [c.results[i] EXCEPT !.val = fix(c.results[i].val)]],
                 !.route = fix(c.route)]

Unregister(e, src, target) ==
    LET out == unregisterOutcome(routing[e], src, target)
    IN /\ e \in constructed
       /\ routing' = [routing EXCEPT ![e] = out.rt]
       /\ last' = LastCall("unregister", out.err)
       /\ picks' = IF out.err = "none"
                   THEN [picks EXCEPT ![e] = picksAfterCall(@, routing[e], out.rt, src)]
                   ELSE picks
       /\ calls' = [c \in Calls |-> detach(calls[c], e, routing[e], out.rt)]
       /\ UNCHANGED <<res, constructed, resolvers, routeCache, bluebird>>

\* -------------------------------------------------- addResolver, removeResolver

AddResolver(e, arr) ==
    /\ e \in constructed
    /\ Len(resolvers[e]) + Len(arr) <= MaxChain
    /\ resolvers' = [resolvers EXCEPT ![e] = addResolver(resolvers[e], arr)]
    /\ last' = LastCall("addResolver", IF addResolverThrows(arr) THEN "Error" ELSE "none")
    /\ UNCHANGED <<res, constructed, routing, routeCache, calls, bluebird, picks>>

RemoveResolver(e, r) ==
    /\ e \in constructed
    /\ resolvers' = [resolvers EXCEPT ![e] = removeResolver(resolvers[e], r)]
    /\ last' = LastCall("removeResolver", "none")
    /\ UNCHANGED <<res, constructed, routing, routeCache, calls, bluebird, picks>>

\* ---------------------------------------------------------------- resolve

\* The targets and descriptors of the model's custom resolvers.
TargetB == <<"b">>
TargetAB == <<"a", "/", "b">>
BadUri == <<"a", " ", "b">>

ReturnValues ==
    { undefined,
      StringDescriptor(TargetB),
      StringDescriptor(TargetAB),
      StringDescriptor(BadUri),
      StructuredDescriptor(TRUE, <<TargetB, TargetAB>>, <<"/", "a">>, FALSE),
      StructuredDescriptor(FALSE, <<>>, <<"/", "a">>, FALSE),
      NativeDescriptor(<<"/", "a", "/", "b">>, <<buildTarget(TargetB, FALSE)>>, 0),
      NumberDescriptor }

\* What a call of a custom resolver does: it returns a value, returns a
\* promise that is still pending, or throws.
Returned(v) == [st |-> "value", val |-> v]
Pending == [st |-> "pending", val |-> undefined]
Rejected == [st |-> "rejected", val |-> undefined]
Threw == [st |-> "throw", val |-> undefined]

SyncOutcomes(values) == {Returned(v) : v \in values} \cup {Pending, Threw}
AsyncOutcomes(values) == {Returned(v) : v \in values} \cup {Rejected}

\* An object with path and urls that a resolver made is a route object of
\* its own, with no isResolved property.
asResult(out) ==
    IF out.val.kind = "native"
    THEN [out EXCEPT !.val = ObjectRef([path |-> out.val.path, rr |-> out.val.rr,
                                        urls |-> out.val.urls, isResolved |-> FALSE])]
    ELSE out

\* The promise of resolver r in promiseArray: its state, its value, and the
\* resolver that made it.
promiseOf(out, r) == [st |-> out.st, val |-> asResult(out).val, by |-> r]

\* resolve, lines 302-305: every resolver of the chain is called with the
\* lowercased host; what[i] is what the custom resolver at i does.
invoked(e, host, url, what) ==
    [i \in 1..Len(resolvers[e]) |->
        IF resolvers[e][i] = DefaultResolver
        THEN promiseOf(Returned(defaultResolver(routing[e], toLowerCase(host), url)),
                       DefaultResolver)
        ELSE promiseOf(what[i], resolvers[e][i])]

\* The choices of what the resolvers of the chain do when they return the
\* given values (one fixed value at the built-in resolver, which does not
\* choose).
Behaviours(e, values) ==
    {w \in [1..Len(resolvers[e]) -> SyncOutcomes(values)] :
        \A i \in 1..Len(resolvers[e]) :
            resolvers[e][i] = DefaultResolver => w[i] = Returned(undefined)}

\* The lowest idle slot takes the new resolution.
FreeSlot(c) ==
    /\ calls[c].phase = "idle"
    /\ \A d \in Calls : d < c => calls[d].phase /= "idle"

\* The promise chain resolve sets up (line 307), or the exception of a
\* resolver that throws while resolve calls it.
startResolve(e, c, host, url, what, op, via, err) ==
    LET rs == invoked(e, host, url, what)
    IN IF \E i \in 1..Len(rs) : rs[i].st = "throw"
       THEN /\ calls' = calls
            /\ last' = LastCall(op, "ResolverThrew")
       ELSE /\ calls' = [calls EXCEPT ![c] =
                            [IdleCall EXCEPT !.phase = "waiting", !.inst = e,
                                             !.host = toLowerCase(host), !.url = url,
                                             !.reqUrl = url, !.via = via, !.results = rs]]
            /\ last' = LastCall(op, err)

\* A call of resolve(host, url) from outside.
Resolve(e, c, host, url, what) ==
    /\ e \in constructed
    /\ FreeSlot(c)
    /\ DOMAIN what = 1..Len(resolvers[e])
    /\ startResolve(e, c, host, url, what, "resolve", FALSE, "none")
    /\ UNCHANGED <<res, constructed, routing, resolvers, routeCache, bluebird, picks>>

\* _getTarget(src, req), lines 361-364: it calls resolve and chains the
\* selection with .bind(this).then(...).  The file names Promise without
\* defining it: with the built-in Promise there is no .bind, and
\* _getTarget throws a TypeError once resolve has returned.
GetTarget(e, c, host, url, what) ==
    /\ e \in constructed
    /\ FreeSlot(c)
    /\ DOMAIN what = 1..Len(resolvers[e])
    /\ startResolve(e, c, host, url, what, "_getTarget", bluebird,
                    IF bluebird THEN "none" ELSE "TypeError")
    /\ UNCHANGED <<res, constructed, routing, resolvers, routeCache, bluebird, picks>>

\* A pending promise of a resolver settles.
Settle(c, i, out) ==
    /\ calls[c].phase = "waiting"
    /\ i \in 1..Len(calls[c].results)
    /\ calls[c].results[i].st = "pending"
    /\ calls' = [calls EXCEPT ![c].results[i] = promiseOf(out, @.by)]
    /\ UNCHANGED <<res, constructed, routing, resolvers, routeCache, bluebird, last, picks>>

\* A reference to a cache entry that set() has evicted: the object stays
\* with the call that holds it.
evicted(c, old, new) ==
    IF c.route.kind = "cached" /\ ~cacheHas(new, c.route.key)
    THEN [c EXCEPT !.route = ObjectRef(cacheRoute(old, c.route.key))]
    ELSE c

\* Promise.all(promiseArray).then(...).catch(...), lines 307-322.
\* Promise.all rejects as soon as one promise has rejected and fulfils when
\* all have; the catch handler logs and yields undefined.
FanIn(c) ==
    LET call == calls[c]
        rs == call.results
        rejected == \E i \in 1..Len(rs) : rs[i].st = "rejected"
        acc == acceptFrom(1, rs, call.url, routing[call.inst], routeCache)
    IN /\ call.phase = "waiting"
       /\ rejected \/ \A i \in 1..Len(rs) : rs[i].st = "value"
       /\ IF rejected
          THEN /\ calls' = [calls EXCEPT ![c].phase = "resolved", ![c].caught = TRUE]
               /\ routeCache' = routeCache
          ELSE /\ routeCache' = acc.cache
               /\ calls' = [d \in Calls |->
                               IF d = c
                               THEN [call EXCEPT !.phase = "resolved", !.caught = acc.threw,
                                                 !.idx = acc.idx, !.route = acc.route]
                               ELSE evicted(calls[d], routeCache, acc.cache)]
       /\ UNCHANGED <<res, constructed, routing, resolvers, bluebird, last, picks>>

\* The continuation of _getTarget, lines 364-407.
Select(c) ==
    LET call == calls[c]
        ref == call.route
        route == deref(ref, routing[call.inst], routeCache)
        target == selectedTarget(route)
    IN /\ call.phase = "resolved"
       /\ call.via
       /\ IF ref = undefined
          THEN /\ calls' = [calls EXCEPT ![c].phase = "done"]
               /\ UNCHANGED <<routing, routeCache, picks>>
          ELSE /\ calls' = [calls EXCEPT ![c] =
                    [call EXCEPT
                       !.phase = "done",
                       !.route = IF ref.kind = "object"
                                 THEN ObjectRef([route EXCEPT !.rr = nextRr(route)])
                                 ELSE ref,
                       !.target = target,
                       !.err = IF target = undefined THEN "TypeError" ELSE "none",
                       !.reqUrl = IF target = undefined THEN strippedUrl(route, call.url)
                                  ELSE forwardedUrl(route, target, call.url),
                       !.reqHost = IF target /= undefined /\ target.useTargetHostHeader
                                   THEN target.host ELSE <<>>]]
               /\ routing' =
                    IF ref.kind = "route"
                    THEN [routing EXCEPT ![call.inst][ref.host][routeIndex(
                              routing[call.inst][ref.host], ref.path)].rr = nextRr(route)]
                    ELSE routing
               /\ routeCache' =
                    IF ref.kind = "cached"
                    THEN [routeCache EXCEPT ![cacheIndex(routeCache, ref.key)].route.rr =
                              nextRr(route)]
                    ELSE routeCache
               /\ picks' =
                    IF ref.kind = "route"
                    THEN [picks EXCEPT ![call.inst][ref.host][ref.path] =
                              IF @ = Untracked \/ @ = MaxPicks THEN Untracked ELSE @ + 1]
                    ELSE picks
       /\ UNCHANGED <<res, constructed, resolvers, bluebird, last>>

\* The caller takes the outcome: the route of resolve, or the target of
\* _getTarget (lines 126-132).
Release(c) ==
    /\ \/ calls[c].phase = "done"
       \/ calls[c].phase = "resolved" /\ ~calls[c].via
    /\ calls' = [calls EXCEPT ![c] = IdleCall]
    /\ UNCHANGED <<res, constructed, routing, resolvers, routeCache, bluebird, last, picks>>

\* ------------------------------------------------------- handleProxyError

\* The codes of the errors the proxy emits; NoCode is an error without one.
NoCode == ""
ErrorCodes == {"ECONNREFUSED", "ECONNRESET", NoCode}

\* res.writeHead && res.writeHead(status) (lines 101, 103). On a response
\* whose headers have been sent, the call throws or stores the status line
\* again, as the runtime has it.
writeHead(r, status, throws) ==
    IF r.headersSent /\ throws THEN [r EXCEPT !.writeHeads = Append(@, status), !.threw = TRUE]
    ELSE [r EXCEPT !.writeHeads = Append(@, status), !.headersSent = TRUE]

\* handleProxyError (lines 95-118): 502 for ECONNREFUSED, else 500 unless
\* the headers have been sent, then res.end(err.code).
handleProxyError(code, r, throws) ==
    LET written == IF code = "ECONNREFUSED" THEN writeHead(r, 502, throws)
                   ELSE IF ~r.headersSent THEN writeHead(r, 500, throws)
                   ELSE r
    IN IF written.threw THEN written
       ELSE [written EXCEPT !.ended = TRUE, !.body = code]

\* The request handler takes the target and hands the request to the proxy
\* (lines 126-128).
ProxyWeb(c) ==
    /\ calls[c].phase = "done"
    /\ calls[c].target /= undefined
    /\ calls[c].err = "none"
    /\ calls' = [calls EXCEPT ![c].phase = "proxying"]
    /\ res' = [res EXCEPT ![c] = FreshResponse]
    /\ UNCHANGED <<constructed, routing, resolvers, routeCache, bluebird, last, picks>>

\* The upstream answers and the proxy relays its headers to the client.
UpstreamResponds(c) ==
    /\ calls[c].phase = "proxying"
    /\ ~res[c].headersSent /\ ~res[c].ended /\ ~res[c].threw
    /\ res' = [res EXCEPT ![c].headersSent = TRUE]
    /\ UNCHANGED <<constructed, routing, resolvers, routeCache, calls, bluebird, last, picks>>

\* The proxy emits 'error' for the request and the default handler, wired
\* at lines 72-76, runs.
HandleProxyError(c, code) ==
    /\ calls[c].phase = "proxying"
    /\ ~res[c].ended /\ ~res[c].threw
    /\ \E throws \in BOOLEAN :
          res' = [res EXCEPT ![c] =
                     [handleProxyError(code, res[c], throws) EXCEPT
                         !.handled = Append(@, [code |-> code,
                                                headersSent |-> res[c].headersSent])]]
    /\ UNCHANGED <<constructed, routing, resolvers, routeCache, calls, bluebird, last, picks>>

\* The exchange is over: the response has ended, or the connection closes.
Finish(c) ==
    /\ calls[c].phase = "proxying"
    /\ calls' = [calls EXCEPT ![c] = IdleCall]
    /\ res' = [res EXCEPT ![c] = NoResponse]
    /\ UNCHANGED <<constructed, routing, resolvers, routeCache, bluebird, last, picks>>

\* ------------------------------------------------------------ specification

SrcStrings ==
    { <<>>, <<"a">>, <<"A", "/", "a">>, <<Http, "a", "/", "a", "/", "b">>,
      <<"b", "/", "a">>, BadUri }
TargetStrings == { <<>>, TargetB, <<"B">>, TargetAB, BadUri }
RequestHosts == { <<>>, <<"A">>, <<"b">> }
RequestUrls == { <<"/", "a">>, <<"/", "a", "/", "b">>, <<"/", "a", "b">> }
ResolverArrays == { <<"rA">>, <<"rB">>, <<"rB", NotAFunction>>, <<NotAFunction>> }

\* Every operation, with every input of the model.
Next ==
    \/ \E e \in Engines, src \in SrcStrings, target \in TargetStrings, opts \in BOOLEAN :
          Register(e, src, target, opts)
    \/ \E e \in Engines, src \in SrcStrings, target \in TargetStrings :
          Unregister(e, src, target)
    \/ \E e \in Engines, arr \in ResolverArrays : AddResolver(e, arr)
    \/ \E e \in Engines, r \in CustomResolvers \cup {DefaultResolver} : RemoveResolver(e, r)
    \/ \E e \in Engines, c \in Calls, host \in RequestHosts, url \in RequestUrls :
          \E what \in Behaviours(e, ReturnValues) : Resolve(e, c, host, url, what)
    \/ \E e \in Engines, c \in Calls, host \in RequestHosts, url \in RequestUrls :
          \E what \in Behaviours(e, ReturnValues) : GetTarget(e, c, host, url, what)
    \/ \E c \in Calls, i \in 1..MaxChain, out \in AsyncOutcomes(ReturnValues) :
          Settle(c, i, out)
    \/ \E c \in Calls : FanIn(c)
    \/ \E c \in Calls : Select(c)
    \/ \E c \in Calls : Release(c)
    \/ \E c \in Calls : ProxyWeb(c)
    \/ \E c \in Calls : UpstreamResponds(c)
    \/ \E c \in Calls, code \in ErrorCodes : HandleProxyError(c, code)
    \/ \E c \in Calls : Finish(c)

Spec == Init /\ [][Next]_vars

\* The routing table under the built-in resolver alone: one engine whose
\* clients register and unregister routes of one target at three paths of
\* host "a" and call resolve, one call at a time.
LookupSrcs == {<<>>, <<"a">>, <<"A", "/", "a">>, <<Http, "a", "/", "a", "/", "b">>, BadUri}

NextLookup ==
    \/ \E src \in LookupSrcs, target \in {<<>>, TargetB, BadUri} :
          Register(1, src, target, FALSE)
    \/ \E src \in LookupSrcs, target \in {<<>>, BadUri} : Unregister(1, src, target)
    \/ \E host \in RequestHosts, url \in RequestUrls :
          \E what \in Behaviours(1, {undefined}) : Resolve(1, 1, host, url, what)
    \/ FanIn(1)
    \/ Release(1)

SpecLookup == Init /\ [][NextLookup]_vars

\* register and unregister on one engine, with targets of which two
\* ("b" and "B") have the same href.
TableSrcs == {<<>>, <<"a">>, <<"A", "/", "a">>, BadUri}

NextUnregister ==
    \/ \E src \in TableSrcs, target \in TargetStrings : Register(1, src, target, FALSE)
    \/ \E src \in TableSrcs, target \in TargetStrings : Unregister(1, src, target)

SpecUnregister == Init /\ [][NextUnregister]_vars

\* Round robin: an engine on which register("a", "b") has been called, and
\* requests through _getTarget to its routes, two of them in flight at
\* once, among calls of register and unregister that make and remove the
\* route at "/a" with its two targets.
RotationUrls == {<<"/", "a">>, <<"/", "a", "b">>}

InitRotation ==
    /\ constructed = {1}
    /\ routing = [e \in Engines |->
                     IF e = 1 THEN registerOutcome(EmptyRouting, <<"a">>, TargetB, FALSE).rt
                     ELSE EmptyRouting]
    /\ resolvers = [e \in Engines |-> IF e = 1 THEN <<DefaultResolver>> ELSE <<>>]
    /\ routeCache = <<>>
    /\ calls = [c \in Calls |-> IdleCall]
    /\ res = [c \in Calls |-> NoResponse]
    /\ bluebird \in BOOLEAN
    /\ last = LastCall("register", "none")
    /\ picks = [e \in Engines |-> [h \in Hostnames |-> [p \in Paths |->
                   IF e = 1 /\ h = <<"a">> /\ p = <<"/">> THEN 0 ELSE Untracked]]]

NextRotation ==
    \/ \E target \in {TargetB, TargetAB} : Register(1, <<"A", "/", "a">>, target, FALSE)
    \/ Unregister(1, <<"A", "/", "a">>, <<>>)
    \/ \E c \in Calls, url \in RotationUrls :
          \E what \in Behaviours(1, {undefined}) : GetTarget(1, c, <<"A">>, url, what)
    \/ \E c \in Calls : FanIn(c)
    \/ \E c \in Calls : Select(c)
    \/ \E c \in Calls : Release(c)

SpecRotation == InitRotation /\ [][NextRotation]_vars

\* The resolver chain: an engine on which register("A/a", "b") has been
\* called, custom resolvers rA (priority 0) and rB (priority 10) that are
\* added and removed, and calls of resolve, one at a time, for host "A" or
\* with an empty host, in which the custom resolvers return, return
\* promises that settle later, or throw.
ChainValues ==
    { undefined,
      StringDescriptor(TargetB),
      StringDescriptor(BadUri),
      StructuredDescriptor(TRUE, <<TargetB, TargetAB>>, <<"/", "a">>, FALSE),
      NativeDescriptor(<<"/", "a", "/", "b">>, <<buildTarget(TargetB, FALSE)>>, 0) }

ChainUrls == {<<"/", "a">>, <<"/", "a", "b">>}
ChainHosts == {<<"A">>, <<>>}

InitChain ==
    /\ constructed = {1}
    /\ routing = [e \in Engines |->
                     IF e = 1
                     THEN registerOutcome(EmptyRouting, <<"A", "/", "a">>, TargetB, FALSE).rt
                     ELSE EmptyRouting]
    /\ resolvers = [e \in Engines |-> IF e = 1 THEN <<DefaultResolver>> ELSE <<>>]
    /\ routeCache = <<>>
    /\ calls = [c \in Calls |-> IdleCall]
    /\ res = [c \in Calls |-> NoResponse]
    /\ bluebird \in BOOLEAN
    /\ last = LastCall("register", "none")
    /\ picks = [e \in Engines |-> [h \in Hostnames |-> [p \in Paths |->
                   IF e = 1 /\ h = <<"a">> /\ p = <<"/", "a">> THEN 0 ELSE Untracked]]]

NextChain ==
    \/ \E r \in CustomResolvers : AddResolver(1, <<r>>)
    \/ \E r \in CustomResolvers \cup {DefaultResolver} : RemoveResolver(1, r)
    \/ \E host \in ChainHosts, url \in ChainUrls, what \in Behaviours(1, ChainValues) :
          Resolve(1, 1, host, url, what)
    \/ \E i \in 1..MaxChain, out \in AsyncOutcomes(ChainValues) : Settle(1, i, out)
    \/ FanIn(1)
    \/ Release(1)

SpecChain == InitChain /\ [][NextChain]_vars

\* The descriptor cache: an engine constructed with the custom resolver rA,
\* whose table is empty, and requests through _getTarget, two of them in
\* flight at once, for which rA returns one of three descriptors, one more
\* than the cache holds.
CacheValues ==
    { StringDescriptor(TargetB),
      StringDescriptor(TargetAB),
      StructuredDescriptor(TRUE, <<TargetB, TargetAB>>, <<"/", "a">>, FALSE) }

InitCache ==
    /\ constructed = {1}
    /\ routing = [e \in Engines |-> EmptyRouting]
    /\ resolvers = [e \in Engines |->
                       IF e = 1 THEN addResolver(<<DefaultResolver>>, <<"rA">>) ELSE <<>>]
    /\ routeCache = <<>>
    /\ calls = [c \in Calls |-> IdleCall]
    /\ res = [c \in Calls |-> NoResponse]
    /\ bluebird \in BOOLEAN
    /\ last = LastCall("new", "none")
    /\ picks = [e \in Engines |-> [h \in Hostnames |-> [p \in Paths |-> Untracked]]]

NextCache ==
    \/ \E c \in Calls, url \in ChainUrls, v \in CacheValues :
          GetTarget(1, c, <<"A">>, url,
                    [i \in 1..Len(resolvers[1]) |->
                        Returned(IF resolvers[1][i] = DefaultResolver THEN undefined ELSE v)])
    \/ \E c \in Calls : FanIn(c)
    \/ \E c \in Calls : Select(c)
    \/ \E c \in Calls : Release(c)

SpecCache == InitCache /\ [][NextCache]_vars

\* Forwarding: an engine constructed with the custom resolver rA, on which
\* routes of host "a" at "/" and "/a" are registered, and requests through
\* _getTarget, one at a time, for which rA returns nothing, a structured
\* descriptor or an object that already has path and urls.
ForwardValues ==
    { undefined,
      StructuredDescriptor(TRUE, <<TargetB, TargetAB>>, <<"/", "a">>, FALSE),
      NativeDescriptor(<<"/", "a", "/", "b">>, <<buildTarget(TargetB, FALSE)>>, 0) }

NextForward ==
    \/ Register(1, <<"a">>, TargetB, FALSE)
    \/ Register(1, <<"A", "/", "a">>, TargetAB, FALSE)
    \/ \E url \in RequestUrls, v \in ForwardValues :
          GetTarget(1, 1, <<"A">>, url,
                    [i \in 1..Len(resolvers[1]) |->
                        Returned(IF resolvers[1][i] = DefaultResolver THEN undefined ELSE v)])
    \/ FanIn(1)
    \/ Select(1)
    \/ Release(1)

SpecForward == InitCache /\ [][NextForward]_vars

\* The rotation index: one route of host "a" whose targets are registered
\* and unregistered, one by one or all at once, between requests through
\* _getTarget, one at a time.
NextIndex ==
    \/ \E target \in {TargetB, TargetAB} : Register(1, <<"a">>, target, FALSE)
    \/ \E target \in {<<>>, TargetB, TargetAB} : Unregister(1, <<"a">>, target)
    \/ \E what \in Behaviours(1, {undefined}) :
          GetTarget(1, 1, <<"A">>, <<"/", "a">>, what)
    \/ FanIn(1)
    \/ Select(1)
    \/ Release(1)

SpecIndex == Init /\ [][NextIndex]_vars

\* The order of the chain: addResolver with one resolver or an array, also
\* one that holds a value that is no function, removeResolver, and calls
\* of resolve, one at a time, in which each custom resolver returns nothing
\* or the string "b".
NextResolvers ==
    \/ \E arr \in ResolverArrays \cup {<<"rA", "rB">>} : AddResolver(1, arr)
    \/ \E r \in CustomResolvers \cup {DefaultResolver} : RemoveResolver(1, r)
    \/ \E what \in [1..Len(resolvers[1]) ->
                       {Returned(undefined), Returned(StringDescriptor(TargetB))}] :
          /\ \A i \in 1..Len(resolvers[1]) :
                resolvers[1][i] = DefaultResolver => what[i] = Returned(undefined)
          /\ Resolve(1, 1, <<"A">>, <<"/", "a">>, what)
    \/ FanIn(1)
    \/ Release(1)

SpecResolvers == Init /\ [][NextResolvers]_vars

\* Upstream errors: requests for "/a", two at a time, on an engine on which
\* register("a", "b") has been called; each is resolved, handed to the proxy,
\* and then the upstream answers, or the proxy reports an error before or
\* after the headers have gone out.
NextUpstream ==
    \/ \E c \in Calls, what \in Behaviours(1, {undefined}) :
          GetTarget(1, c, <<"A">>, <<"/", "a">>, what)
    \/ \E c \in Calls : FanIn(c)
    \/ \E c \in Calls : Select(c)
    \/ \E c \in Calls : ProxyWeb(c)
    \/ \E c \in Calls : UpstreamResponds(c)
    \/ \E c \in Calls, code \in ErrorCodes : HandleProxyError(c, code)
    \/ \E c \in Calls : Finish(c)

SpecUpstream == InitRotation /\ [][NextUpstream]_vars

\* Two instances: engines 1 and 2, each constructed with the custom resolver
\* rA and an empty table, and requests through _getTarget on either, two in
\* flight at once, for which rA returns one of the three descriptors.
InitInstances ==
    /\ constructed = Engines
    /\ routing = [e \in Engines |-> EmptyRouting]
    /\ resolvers = [e \in Engines |-> addResolver(<<DefaultResolver>>, <<"rA">>)]
    /\ routeCache = <<>>
    /\ calls = [c \in Calls |-> IdleCall]
    /\ res = [c \in Calls |-> NoResponse]
    /\ bluebird \in BOOLEAN
    /\ last = LastCall("new", "none")
    /\ picks = [e \in Engines |-> [h \in Hostnames |-> [p \in Paths |-> Untracked]]]

NextInstances ==
    \/ \E e \in Engines, c \in Calls, v \in CacheValues :
          GetTarget(e, c, <<"A">>, <<"/", "a">>,
                    [i \in 1..Len(resolvers[e]) |->
                        Returned(IF resolvers[e][i] = DefaultResolver THEN undefined ELSE v)])
    \/ \E c \in Calls : FanIn(c)
    \/ \E c \in Calls : Select(c)
    \/ \E c \in Calls : Release(c)

SpecInstances == InitInstances /\ [][NextInstances]_vars

\* =================================================================== claims

\* p is a segment-boundary prefix of r: r is p followed by nothing, or by a
\* rest that begins with "/".
IsBoundaryPrefix(p, r) ==
    \E k \in 0..Len(r) :
        /\ SubSeq(r, 1, k) = p
        /\ (k = Len(r) \/ r[k + 1] = "/")

\* The routes of a host that may serve a request path, and the one with the
\* longest path among them.
Candidates(rt, host, url) ==
    IF host \in DOMAIN rt
    THEN {i \in 1..Len(rt[host]) :
              rt[host][i].path = <<"/">> \/ IsBoundaryPrefix(rt[host][i].path, url)}
    ELSE {}

LongestMatch(rt, host, url) ==
    IF Candidates(rt, host, url) = {} THEN undefined
    ELSE LET i == CHOOSE i \in Candidates(rt, host, url) :
                      \A j \in Candidates(rt, host, url) :
                          Len(rt[host][i].path) >= Len(rt[host][j].path)
         IN TableRef(host, rt[host][i].path)

\* C2. Longest prefix wins: with only the built-in resolver installed, the
\* table lookup of a resolve call yields the route of the (lowercased) host
\* with the longest path among those whose path is "/" or a boundary prefix
\* of the request path, or nothing when there is none; and that is what
\* resolve yields.
C2_LongestPrefixWins ==
    [][\A c \in Calls :
          /\ (/\ calls[c].phase = "idle"
              /\ calls'[c].phase = "waiting"
              /\ resolvers[calls'[c].inst] = <<DefaultResolver>>)
             => calls'[c].results[1].val =
                    LongestMatch(routing[calls'[c].inst], calls'[c].host, calls'[c].url)
          /\ (/\ calls[c].phase = "waiting"
              /\ calls'[c].phase = "resolved"
              /\ resolvers[calls[c].inst] = <<DefaultResolver>>
              /\ Len(calls[c].results) = 1)
             => calls'[c].route = calls[c].results[1].val]_vars

\* With "/" and "/a" registered for the host, "/a/b" resolves to "/a".
C2_Witness ==
    \E c \in Calls :
        /\ calls[c].phase = "resolved"
        /\ calls[c].url = <<"/", "a", "/", "b">>
        /\ calls[c].route = TableRef(<<"a">>, <<"/", "a">>)
        /\ hasRoute(routing[1], <<"a">>, <<"/">>)
        /\ hasRoute(routing[1], <<"a">>, <<"/", "a">>)
        /\ routing[1][<<"a">>][1].path = <<"/", "a">>

\* C3. Path boundary: for the request of every resolution and every route
\* of its host whose path is not "/", the route matches exactly when its
\* path is a segment-boundary prefix of the request path.
C3_PathBoundary ==
    \A c \in Calls :
        (calls[c].phase /= "idle" /\ calls[c].host \in Hostnames) =>
            \A i \in 1..Len(routing[calls[c].inst][calls[c].host]) :
                LET route == routing[calls[c].inst][calls[c].host][i]
                IN route.path /= <<"/">> =>
                       (routeMatches(route, calls[c].url)
                            <=> IsBoundaryPrefix(route.path, calls[c].url))

\* A lookup of "/ab" on a host that has a route at "/a" did not yield it,
\* while the table is as the lookup saw it.
C3_Witness ==
    \E c \in Calls :
        /\ calls[c].phase = "waiting"
        /\ calls[c].url = <<"/", "a", "b">>
        /\ hasRoute(routing[1], <<"a">>, <<"/", "a">>)
        /\ calls[c].results[1].val = defaultResolver(routing[1], calls[c].host, calls[c].url)
        /\ calls[c].results[1].val /= TableRef(<<"a">>, <<"/", "a">>)

\* A step of register or unregister: the step records the call and moves
\* no resolution forward.
IsTableCall ==
    /\ last'.op \in {"register", "unregister"}
    /\ \A c \in Calls : calls'[c].phase = calls[c].phase /\ calls'[c].idx = calls[c].idx
    /\ \A c \in Calls : Len(calls'[c].results) = Len(calls[c].results)
    /\ \A c \in Calls : \A i \in 1..Len(calls[c].results) :
           calls'[c].results[i].st = calls[c].results[i].st

\* C8. No partial mutation: a register or unregister call that throws
\* leaves the routing table as it was, so that every table lookup gives
\* what it gave before.
C8_NoPartialMutation ==
    [][(IsTableCall /\ last'.err /= "none") =>
          /\ routing' = routing
          /\ \A e \in Engines, h \in RequestHosts, u \in RequestUrls :
                defaultResolver(routing'[e], toLowerCase(h), u)
                    = defaultResolver(routing[e], toLowerCase(h), u)]_vars

\* register has thrown InvalidURI on a table that holds routes.
C8_Witness ==
    /\ last = LastCall("register", "InvalidURI")
    /\ routing[1] /= EmptyRouting

\* The table that unregister(src, target) is to leave: for the route at the
\* host and path of src, the targets whose href is that of target are gone
\* (all of them when no target is given), and a route left without targets
\* is gone; everything else is as before.
AfterUnregister(rt, src, target) ==
    IF src = <<>> THEN rt
    ELSE LET host == prepareUrl(src).hostname
             p == prepareUrl(src).pathname
             stays(u) == target /= <<>> /\ u.href /= prepareUrl(target).href
             left(route) == IF route.path = p
                            THEN [route EXCEPT !.urls = SelectSeq(route.urls, stays)]
                            ELSE route
             nonEmpty(route) == route.urls /= <<>>
         IN IF \A i \in 1..Len(rt[host]) : rt[host][i].path /= p THEN rt
            ELSE [rt EXCEPT ![host] =
                     SelectSeq([i \in 1..Len(rt[host]) |-> left(rt[host][i])], nonEmpty)]

\* C7. Unregister semantics: an unregister call that does not throw leaves
\* the table with exactly the targets equal to the given one removed from
\* the route at the host and path of src, the others in their order; with
\* no target, or with no target left, the route entry is deleted; when
\* there is no such route the call does not throw and the table is as it
\* was; the routes at other hosts and paths are unchanged.
C7_UnregisterSemantics ==
    [][last'.op = "unregister" =>
          \A src \in TableSrcs, target \in TargetStrings :
              Unregister(1, src, target) =>
                  /\ last'.err = "none" =>
                         /\ routing'[1] = AfterUnregister(routing[1], src, target)
                         /\ routing'[2] = routing[2]
                  /\ (/\ src /= <<>>
                      /\ ~prepareUrlThrows(src)
                      /\ ~hasRoute(routing[1], prepareUrl(src).hostname,
                                   prepareUrl(src).pathname))
                     => last'.err = "none" /\ routing' = routing]_vars

\* unregister has left the route of host "a" at "/" with its second target
\* only, next to an untouched route at "/a" that holds both.
C7_Witness ==
    /\ last = LastCall("unregister", "none")
    /\ hasRoute(routing[1], <<"a">>, <<"/">>)
    /\ hasRoute(routing[1], <<"a">>, <<"/", "a">>)
    /\ routing[1][<<"a">>][2].urls = <<buildTarget(TargetAB, FALSE)>>
    /\ routing[1][<<"a">>][1].urls = <<buildTarget(TargetB, FALSE), buildTarget(TargetAB, FALSE)>>

\* C1. Round-robin fairness: on a PathRoute that no register or unregister
\* call has reached since its first selection, the k-th selection of
\* _getTarget (k = 0, 1, ...) returns the target at index k mod n of its n
\* targets, whatever other resolutions and selections are interleaved.
C1_RoundRobinFairness ==
    [][\A c \in Calls :
          (/\ calls[c].phase = "resolved"
           /\ calls'[c].phase = "done"
           /\ calls[c].route.kind = "route"
           /\ picks[calls[c].inst][calls[c].route.host][calls[c].route.path] /= Untracked)
          => LET k == picks[calls[c].inst][calls[c].route.host][calls[c].route.path]
                 rts == routing[calls[c].inst][calls[c].route.host]
                 targets == (CHOOSE r \in {rts[i] : i \in 1..Len(rts)} :
                                 r.path = calls[c].route.path).urls
             IN /\ Len(targets) > 0
                /\ calls'[c].target = targets[(k % Len(targets)) + 1]]_vars

\* The fourth selection on the route at "/a" with targets [b, a/b] has
\* returned a/b, while a request to the route at "/" is in flight.
C1_Witness ==
    \E c, d \in Calls :
        /\ calls[c].phase = "done"
        /\ calls[c].route = TableRef(<<"a">>, <<"/", "a">>)
        /\ picks[1][<<"a">>][<<"/", "a">>] = 4
        /\ routing[1][<<"a">>][1].urls = <<buildTarget(TargetB, FALSE), buildTarget(TargetAB, FALSE)>>
        /\ calls[c].target = buildTarget(TargetAB, FALSE)
        /\ calls[d].phase = "resolved"
        /\ calls[d].route = TableRef(<<"a">>, <<"/">>)

\* A resolver result that resolve is to accept for a request path: a route
\* of the table, or a descriptor of a valid target whose path is "/" or a
\* segment-boundary prefix of the request path.
AcceptablePath(p, url) == p = <<"/">> \/ IsBoundaryPrefix(p, url)

AcceptableResult(r, url) ==
    /\ r.st = "value"
    /\ \/ r.val.kind = "route"
       \/ r.val.kind = "object" /\ AcceptablePath(r.val.obj.path, url)
       \/ r.val.kind = "string" /\ r.val.str /= <<>> /\ ~prepareUrlThrows(r.val.str)
       \/ /\ r.val.kind = "structured"
          /\ r.val.hasUrl
          /\ \A i \in 1..Len(r.val.url) : ~prepareUrlThrows(r.val.url[i])
          /\ AcceptablePath(IF r.val.path \in {Undefined, <<>>} THEN <<"/">> ELSE r.val.path,
                            url)

\* The step in which the promise of resolve call c settles.
Yields(c) == calls[c].phase = "waiting" /\ calls'[c].phase = "resolved"

\* C4. Resolver priority override: what resolve yields is the result of a
\* resolver that produced an acceptable route and has the highest priority
\* among those that did, and it yields nothing only when no resolver
\* produced an acceptable route.
C4_PriorityOverride ==
    [][\A c \in Calls :
          Yields(c) =>
              LET rs == calls[c].results
                  ok == {j \in 1..Len(rs) : AcceptableResult(rs[j], calls[c].url)}
              IN IF ok = {} THEN calls'[c].idx = 0
                 ELSE /\ calls'[c].idx \in ok
                      /\ \A j \in ok :
                            priority(rs[calls'[c].idx].by) >= priority(rs[j].by)]_vars

\* C5. Resolver failure isolation: when a resolver of the chain has failed
\* and another one has returned an acceptable route, resolve yields a
\* route.
C5_FailureIsolation ==
    [][\A c \in Calls :
          (/\ Yields(c)
           /\ \E j \in 1..Len(calls[c].results) : calls[c].results[j].st = "rejected"
           /\ \E j \in 1..Len(calls[c].results) :
                 AcceptableResult(calls[c].results[j], calls[c].url))
          => calls'[c].route /= undefined]_vars

\* C6. Resolution never fails loudly: no call of resolve ends with an
\* error thrown to its caller.
C6_NeverFailsLoudly == last.op = "resolve" => last.err = "none"

\* C9. No cross-path leakage: a route that resolve yields from the result
\* of a custom resolver has a path that is "/" or a segment-boundary prefix
\* of the request path.
C9_NoCrossPathLeakage ==
    \A c \in Calls :
        (/\ calls[c].phase = "resolved"
         /\ calls[c].idx > 0
         /\ calls[c].results[calls[c].idx].by /= DefaultResolver)
        => AcceptablePath(deref(calls[c].route, routing[calls[c].inst], routeCache).path,
                          calls[c].url)

\* C10. Descriptor cache reuse: when resolve accepts a descriptor that is
\* in the RouteCache, it yields the route object the cache holds for that
\* descriptor, which has not been built again: the entry is what it was
\* before, its rotation index included.
C10_CacheReuse ==
    [][\A c \in Calls :
          (/\ Yields(c)
           /\ calls'[c].idx > 0
           /\ calls[c].results[calls'[c].idx].val.kind \in {"string", "structured"}
           /\ cacheHas(routeCache, calls[c].results[calls'[c].idx].val))
          => LET d == calls[c].results[calls'[c].idx].val
             IN /\ calls'[c].route = CachedRef(d)
                /\ cacheHas(routeCache', d)
                /\ cacheRoute(routeCache', d) = cacheRoute(routeCache, d)]_vars

\* A request has been given the second target of the structured
\* descriptor: the selection went on from where an earlier request for the
\* same descriptor had left the cached route.
C10_Witness ==
    \E c \in Calls :
        /\ calls[c].phase = "done"
        /\ calls[c].route =
               CachedRef(StructuredDescriptor(TRUE, <<TargetB, TargetAB>>, <<"/", "a">>, FALSE))
        /\ calls[c].target = buildTarget(TargetAB, FALSE)

\* s is the request path url rewritten for a route at path p: url itself
\* when p is "/", and otherwise what follows the prefix p in url, or "/"
\* when nothing follows.
IsRewrite(p, url, s) ==
    IF Len(p) <= 1 THEN s = url
    ELSE \/ url = p /\ s = <<"/">>
         \/ p \o s = url /\ s /= <<>>

\* C11. Path rewriting: the request that _getTarget hands on with a target
\* has as its path the path of the target joined with the request path
\* rewritten for the accepted route: the matched prefix removed when the
\* path of the route is longer than 1 ("/" when nothing is left), the
\* request path as it is when the route is at "/".
C11_PathRewriting ==
    \A c \in Calls :
        (calls[c].phase = "done" /\ calls[c].target /= undefined) =>
            \E k \in 1..(Len(calls[c].url) + 1) :
                LET s == IF k > Len(calls[c].url) THEN <<"/">>
                         ELSE SubSeq(calls[c].url, k, Len(calls[c].url))
                    route == deref(calls[c].route, routing[calls[c].inst], routeCache)
                IN /\ IsRewrite(route.path, calls[c].url, s)
                   /\ calls[c].reqUrl = posixJoin(calls[c].target.pathname, s)

\* C12. Rotation index in range: every PathRoute of the routing table has
\* a rotation index that is a number from 0 to the number of its targets
\* less one.
C12_RotationIndexInRange ==
    \A e \in Engines, h \in Hostnames :
        \A i \in 1..Len(routing[e][h]) :
            /\ routing[e][h][i].rr /= NaN
            /\ 0 <= routing[e][h][i].rr
            /\ routing[e][h][i].rr < Len(routing[e][h][i].urls)

\* C13. No empty routes: after every register and unregister call, thrown
\* or not, no PathRoute of the routing table has an empty target list.
C13_NoEmptyRoutes ==
    \A e \in Engines, h \in Hostnames :
        \A i \in 1..Len(routing[e][h]) : routing[e][h][i].urls /= <<>>

\* unregister has returned and host "a", which has a route at "/a", has
\* none at "/".
C13_Witness ==
    /\ last = LastCall("unregister", "none")
    /\ ~hasRoute(routing[1], <<"a">>, <<"/">>)
    /\ hasRoute(routing[1], <<"a">>, <<"/", "a">>)
    /\ picks[1][<<"a">>][<<"/">>] = Untracked

\* C14. Resolution versus concurrent mutation: a request for which resolve
\* has yielded a route is given a target of that route by the selection
\* that follows, whatever register and unregister calls ran while it was in
\* flight: the selection never reads a missing index and never yields
\* undefined.
C14_ConsistentSelection ==
    \A c \in Calls :
        (calls[c].phase = "done" /\ calls[c].route /= undefined) =>
            /\ calls[c].target /= undefined
            /\ calls[c].err = "none"

\* C15. Fan-in waits for all resolvers: when the promise of a resolve call
\* settles, no promise of a resolver invoked for that call is pending.
C15_FanInWaitsForAll ==
    [][\A c \in Calls :
          Yields(c) =>
              \A i \in 1..Len(calls[c].results) : calls[c].results[i].st /= "pending"]_vars

\* C16. No lost rotation update: on a PathRoute with n targets that no
\* register or unregister call has reached since its first selection, the
\* rotation index after m selections is m mod n, whatever the order in
\* which the resolutions in flight complete.
C16_NoLostRotationUpdate ==
    \A e \in Engines, h \in Hostnames :
        \A i \in 1..Len(routing[e][h]) :
            LET route == routing[e][h][i]
            IN picks[e][h][route.path] /= Untracked =>
                   route.rr = picks[e][h][route.path] % Len(route.urls)

\* Two requests for the route at "/a" were in flight at once; they have
\* been given its two targets, and the index is back at 0.
C16_Witness ==
    /\ calls[1].phase = "done" /\ calls[2].phase = "done"
    /\ calls[1].route = TableRef(<<"a">>, <<"/", "a">>)
    /\ calls[2].route = TableRef(<<"a">>, <<"/", "a">>)
    /\ calls[1].target /= calls[2].target
    /\ calls[1].target /= undefined /\ calls[2].target /= undefined
    /\ picks[1][<<"a">>][<<"/", "a">>] = 2
    /\ routing[1][<<"a">>][1].rr = 0

\* C17. Resolver chain sorted: after every addResolver and removeResolver
\* call, thrown or not, the priorities along the chain do not increase.
C17_ChainSorted ==
    \A e \in Engines :
        \A i, j \in 1..Len(resolvers[e]) :
            i < j => priority(resolvers[e][i]) >= priority(resolvers[e][j])

\* C18. Equal-priority order: the built-in resolver, which the constructor
\* inserts first, comes before every custom resolver of its priority in
\* the chain.
C18_EqualPriorityOrder ==
    \A e \in Engines :
        \A i, j \in 1..Len(resolvers[e]) :
            (/\ resolvers[e][i] = DefaultResolver
             /\ resolvers[e][j] /= DefaultResolver
             /\ priority(resolvers[e][j]) = priority(DefaultResolver))
            => i < j

\* C19. Empty host yields no route: a resolve call with an empty host
\* yields nothing.
C19_EmptyHostNoRoute ==
    \A c \in Calls :
        (calls[c].phase = "resolved" /\ calls[c].host = <<>>) => calls[c].route = undefined

\* C20. Default upstream-error policy: the default handler writes 502 for a
\* connection-refused error and 500 for any other error when no response
\* has begun, and writes no status once the headers have been sent,
\* whatever the error's code.
C20_DefaultErrorPolicy ==
    \A c \in Calls :
        res[c].handled /= <<>> =>
            LET err == res[c].handled[1]
            IN res[c].writeHeads =
                  IF err.headersSent THEN <<>>
                  ELSE IF err.code = "ECONNREFUSED" THEN <<502>> ELSE <<500>>

\* The target a resolution that accepts descriptor d selects next, with the
\* cache as it is: that of the cached route, or the first of a new one.
nextTargetOf(d, cache) ==
    selectedTarget(IF cacheHas(cache, d) THEN cacheRoute(cache, d) ELSE normalizedRoute(d))

\* The step is one of a resolution of engine e.
StepOf(e) ==
    \E c \in Calls : calls'[c] /= calls[c] /\ (calls[c].inst = e \/ calls'[c].inst = e)

\* C21. No cross-instance interference: no step of a resolution of engine 2
\* changes what engine 1 selects: engine 1's table and chain stay as they
\* are, and so does the target engine 1 would select next for each
\* descriptor, because the cache and the rotation state of its routes are
\* not shared.
C21_NoCrossInstanceInterference ==
    [][StepOf(2) =>
          /\ routing'[1] = routing[1]
          /\ resolvers'[1] = resolvers[1]
          /\ \A d \in CacheValues :
                nextTargetOf(d, routeCache') = nextTargetOf(d, routeCache)]_vars

====
